---- MODULE Spec2Model ----
(***************************************************************************)
(* Model of the realy-web client: the auth context (src/lib/auth.tsx), the *)
(* token store and gateway helpers and the RelayWebSocket client           *)
(* (src/unnamed/part_000), and the room page (src/unnamed/part_002).       *)
(***************************************************************************)
EXTENDS Integers, Sequences, FiniteSets, TLC

VARIABLES
    \* ---- auth context and its two persistence surfaces
    localStorage,   \* value under TOKEN_KEY in the durable store, or NoToken
    cookie,         \* raw text of the relay_token cookie, or NoCookie
    user,           \* AuthProvider's user state, or NoUser
    isLoading,      \* AuthProvider's isLoading state
    restorePc,      \* position of the mount effect: "mount", "getMe", "done"
    restoreBearer,  \* bearer header carried by the mount effect's getMe
    calls,          \* in-flight login()/register() invocations, by slot
    authEvt         \* the auth handler that ran last, and how it ended

authVars == <<localStorage, cookie, user, isLoading, restorePc, restoreBearer,
              calls, authEvt>>

VARIABLES
    \* ---- one RelayWebSocket instance and the transports it created
    transports,       \* every WebSocket the instance created: readyState, frames sent
    ws,               \* this.ws: index into transports, or 0 for null
    reconnectTimer,   \* this.reconnectTimer: a timer handle, or 0 for null
    shouldReconnect,  \* this.shouldReconnect
    timers,           \* pending setTimeout callbacks: <<handle, delay>>
    wsStatus,         \* last value passed to onStatus
    afterDisconnect,  \* disconnect() ran and connect() was not called since
    accepted,         \* <<transport, payload>> of send calls made while it was open
    frames,           \* event.data of every message event handled, in order
    transcripts,      \* every value passed to onTranscript, in order
    wsEvt             \* the socket operation or event that ran last

wsVars == <<transports, ws, reconnectTimer, shouldReconnect, timers, wsStatus,
            afterDisconnect, accepted, frames, transcripts, wsEvt>>

VARIABLES
    \* ---- one RoomPageContent instance: its state, its refs and the external
    \* resources (audio channel, tracks, streams) the refs point to
    room

VARIABLES
    \* ---- the browser's navigation through the route guard, and the page shown
    location,   \* pathname of the page shown, or NoPage
    request,    \* the URL being requested: <<url>>, or <<>> when none is
    page,       \* the shown page's gating effect and DashboardPage load state
    navEvt      \* the request the guard answered last, and its answer

navVars == <<location, request, page, navEvt>>

VARIABLES
    \* ---- the session list of one DashboardPage instance
    meetings,   \* the meetings state: status of each session shown
    backend,    \* the backend's status of each session
    inflight,   \* create/end/delete handlers suspended at their await
    listEvt     \* the list handler or response that ran last

listVars == <<meetings, backend, inflight, listEvt>>

VARIABLES
    \* ---- the gateway client: one apiFetch call
    wire,       \* the fetch() requests the call that ran last issued
    result      \* that call: its endpoint, the response and what came of it

apiVars == <<wire, result>>

VARIABLES
    \* ---- one JoinPageContent instance
    join

siteVars == <<navVars, listVars, apiVars, join>>

vars == <<authVars, wsVars, room, siteVars>>

\* ------------------------------------------------------------------ bounds

\* Number of login()/register() invocations that may be in flight at once.
MaxCalls == 1

\* Number of transports one RelayWebSocket instance may create.
MaxTransports == 3

\* Number of message events the transports of one instance may deliver.
MaxFrames == 2

\* Number of create/end/delete requests of the dashboard in flight at once.
MaxInflight == 2

\* Number of joinMeeting requests one join page instance is followed through.
MaxJoins == 2

\* ------------------------------------------------------------- value sets

NoToken == "none"
NoCookie == "none"
NoUser == "none"

\* Credentials the backend may issue; the second needs escaping in a cookie.
Tokens == {"tok1", "tok/2"}

\* Messages a rejected gateway request may carry (detail, or "HTTP {status}").
Errors == {"Invalid credentials", "HTTP 500"}

Slots == 1..MaxCalls

\* ------------------------------------------------------------ token store

getToken == localStorage

EncodeURIComponent(v) == IF v = "tok/2" THEN "tok%2F2" ELSE v

DecodeURIComponent(c) == IF c = "tok%2F2" THEN "tok/2" ELSE c

\* The identity the backend's /auth/me reports for a bearer.
IdentityOf(t) == IF t = "tok1" THEN "company1" ELSE "company2"

\* The cookie text setCookie("relay_token", value) leaves behind.
setCookie(value) == EncodeURIComponent(value)

IdleCall == [pc |-> "idle", kind |-> "none", tok |-> NoToken, bearer |-> NoToken,
             startedEmpty |-> FALSE, interfered |-> FALSE]

Evt(op, slot, err) == [op |-> op, slot |-> slot, err |-> err]

\* Another operation wrote a Credential while these calls were in flight.
Interfere(cs, s) ==
    [x \in Slots |-> IF x # s /\ cs[x].pc # "idle"
                     THEN [cs[x] EXCEPT !.interfered = TRUE] ELSE cs[x]]

\* ----------------------------------------------------------- AuthProvider

\* isAuthenticated: !!user
isAuthenticated == user # NoUser

InitAuth ==
    /\ localStorage \in Tokens \cup {NoToken}
    /\ cookie = IF localStorage = NoToken THEN NoCookie ELSE setCookie(localStorage)
    /\ user = NoUser
    /\ isLoading = TRUE
    /\ restorePc = "mount"
    /\ restoreBearer = NoToken
    /\ calls = [s \in Slots |-> IdleCall]
    /\ authEvt = Evt("init", 0, "none")

\* The mount effect up to its first suspension.
RestoreEffect ==
    /\ restorePc = "mount"
    /\ IF getToken = NoToken
       THEN /\ isLoading' = FALSE
            /\ restorePc' = "done"
            /\ restoreBearer' = NoToken
            /\ authEvt' = Evt("restore_notoken", 0, "none")
       ELSE /\ restorePc' = "getMe"
            /\ restoreBearer' = getToken
            /\ authEvt' = Evt("restore_getMe", 0, "none")
            /\ UNCHANGED isLoading
    /\ UNCHANGED <<localStorage, cookie, user, calls>>

\* getMe().then(setUser) ... .finally(() => setIsLoading(false))
RestoreGetMeOk ==
    /\ restorePc = "getMe"
    /\ user' = IdentityOf(restoreBearer)
    /\ isLoading' = FALSE
    /\ restorePc' = "done"
    /\ authEvt' = Evt("restore_ok", 0, "none")
    /\ UNCHANGED <<localStorage, cookie, restoreBearer, calls>>

\* Mutant: the chain ends at .catch, without the .finally.
RestoreGetMeFail_noFinally(e) ==
    /\ restorePc = "getMe"
    /\ localStorage' = NoToken
    /\ restorePc' = "done"
    /\ authEvt' = Evt("restore_failed", 0, e)
    /\ UNCHANGED <<cookie, user, isLoading, restoreBearer, calls>>

\* getMe() ... .catch(() => clearToken()).finally(() => setIsLoading(false))
RestoreGetMeFail(e) ==
    /\ restorePc = "getMe"
    /\ localStorage' = NoToken
    /\ isLoading' = FALSE
    /\ restorePc' = "done"
    /\ authEvt' = Evt("restore_failed", 0, e)
    /\ UNCHANGED <<cookie, user, restoreBearer, calls>>

\* login(email, password) up to the await of loginCompany (auth: false).
Login(s) ==
    /\ restorePc # "mount"
    /\ calls[s].pc = "idle"
    /\ calls' = [calls EXCEPT ![s] = [IdleCall EXCEPT !.pc = "loginCompany",
                                                      !.kind = "login"]]
    /\ authEvt' = Evt("login_called", s, "none")
    /\ UNCHANGED <<localStorage, cookie, user, isLoading, restorePc, restoreBearer>>

\* Mutant: getMe() is issued before the Credential is persisted.
LoginCompanyOk_fetchFirst(s, t) ==
    /\ calls[s].pc = "loginCompany"
    /\ localStorage' = t
    /\ cookie' = setCookie(t)
    /\ calls' = [Interfere(calls, s) EXCEPT ![s].pc = "getMe", ![s].tok = t,
                                            ![s].bearer = localStorage]
    /\ authEvt' = Evt("login_persisted", s, "none")
    /\ UNCHANGED <<user, isLoading, restorePc, restoreBearer>>

\* loginCompany resolved: setToken, setCookie, then getMe() is issued.
LoginCompanyOk(s, t) ==
    /\ calls[s].pc = "loginCompany"
    /\ localStorage' = t
    /\ cookie' = setCookie(t)
    /\ calls' = [Interfere(calls, s) EXCEPT ![s].pc = "getMe", ![s].tok = t,
                                            ![s].bearer = localStorage']
    /\ authEvt' = Evt("login_persisted", s, "none")
    /\ UNCHANGED <<user, isLoading, restorePc, restoreBearer>>

\* loginCompany rejected: login (and a register awaiting it) rejects.
LoginCompanyFail(s, e) ==
    /\ calls[s].pc = "loginCompany"
    /\ calls' = [calls EXCEPT ![s] = [@ EXCEPT !.pc = "idle"]]
    /\ authEvt' = Evt(IF calls[s].kind = "register" THEN "register_rejected_exchange"
                      ELSE "login_rejected_exchange", s, e)
    /\ UNCHANGED <<localStorage, cookie, user, isLoading, restorePc, restoreBearer>>

\* login's getMe resolved: setUser(me).
LoginGetMeOk(s) ==
    /\ calls[s].pc = "getMe"
    /\ user' = IdentityOf(calls[s].bearer)
    /\ calls' = [calls EXCEPT ![s] = [@ EXCEPT !.pc = "idle"]]
    /\ authEvt' = Evt(IF calls[s].kind = "register" THEN "register_ok"
                      ELSE "login_ok", s, "none")
    /\ UNCHANGED <<localStorage, cookie, isLoading, restorePc, restoreBearer>>

\* login's getMe rejected: login (and a register awaiting it) rejects.
LoginGetMeFail(s, e) ==
    /\ calls[s].pc = "getMe"
    /\ calls' = [calls EXCEPT ![s] = [@ EXCEPT !.pc = "idle"]]
    /\ authEvt' = Evt(IF calls[s].kind = "register" THEN "register_rejected_getMe"
                      ELSE "login_rejected_getMe", s, e)
    /\ UNCHANGED <<localStorage, cookie, user, isLoading, restorePc, restoreBearer>>

\* register(name, email, password) up to the await of registerCompany.
Register(s) ==
    /\ restorePc # "mount"
    /\ calls[s].pc = "idle"
    /\ calls' = [calls EXCEPT ![s] =
                     [IdleCall EXCEPT !.pc = "registerCompany", !.kind = "register",
                                      !.startedEmpty = (localStorage = NoToken
                                                        /\ cookie = NoCookie)]]
    /\ authEvt' = Evt("register_called", s, "none")
    /\ UNCHANGED <<localStorage, cookie, user, isLoading, restorePc, restoreBearer>>

\* registerCompany resolved: login(email, password) is called.
RegisterCompanyOk(s) ==
    /\ calls[s].pc = "registerCompany"
    /\ calls' = [calls EXCEPT ![s].pc = "loginCompany"]
    /\ authEvt' = Evt("register_created", s, "none")
    /\ UNCHANGED <<localStorage, cookie, user, isLoading, restorePc, restoreBearer>>

RegisterCompanyFail(s, e) ==
    /\ calls[s].pc = "registerCompany"
    /\ calls' = [calls EXCEPT ![s] = [@ EXCEPT !.pc = "idle"]]
    /\ authEvt' = Evt("register_rejected_create", s, e)
    /\ UNCHANGED <<localStorage, cookie, user, isLoading, restorePc, restoreBearer>>

\* Mutant: logout forgets deleteCookie.
Logout_keepsCookie ==
    /\ restorePc # "mount"
    /\ localStorage' = NoToken
    /\ user' = NoUser
    /\ authEvt' = Evt("logout", 0, "none")
    /\ UNCHANGED <<cookie, isLoading, restorePc, restoreBearer, calls>>

\* logout(): clearToken, deleteCookie("relay_token"), setUser(null).
Logout ==
    /\ restorePc # "mount"
    /\ localStorage' = NoToken
    /\ cookie' = NoCookie
    /\ user' = NoUser
    /\ authEvt' = Evt("logout", 0, "none")
    /\ UNCHANGED <<isLoading, restorePc, restoreBearer, calls>>

NextAuth ==
    \/ RestoreEffect /\ UNCHANGED <<wsVars, room, siteVars>>
    \/ RestoreGetMeOk /\ UNCHANGED <<wsVars, room, siteVars>>
    \/ \E e \in Errors : RestoreGetMeFail(e) /\ UNCHANGED <<wsVars, room, siteVars>>
    \/ \E s \in Slots : Login(s) /\ UNCHANGED <<wsVars, room, siteVars>>
    \/ \E s \in Slots, t \in Tokens : LoginCompanyOk(s, t) /\ UNCHANGED <<wsVars, room, siteVars>>
    \/ \E s \in Slots, e \in Errors : LoginCompanyFail(s, e) /\ UNCHANGED <<wsVars, room, siteVars>>
    \/ \E s \in Slots : LoginGetMeOk(s) /\ UNCHANGED <<wsVars, room, siteVars>>
    \/ \E s \in Slots, e \in Errors : LoginGetMeFail(s, e) /\ UNCHANGED <<wsVars, room, siteVars>>
    \/ \E s \in Slots : Register(s) /\ UNCHANGED <<wsVars, room, siteVars>>
    \/ \E s \in Slots : RegisterCompanyOk(s) /\ UNCHANGED <<wsVars, room, siteVars>>
    \/ \E s \in Slots, e \in Errors : RegisterCompanyFail(s, e) /\ UNCHANGED <<wsVars, room, siteVars>>
    \/ Logout /\ UNCHANGED <<wsVars, room, siteVars>>

\* -------------------------------------------------------- RelayWebSocket

\* setTimeout(() => this.connect(), 3000)
ReconnectDelayMs == 3000

Chunks == {"chunk1"}
Texts == {"text1"}

\* Texts a message event may carry: a transcript object, a JSON number, and
\* a text that is not JSON.
TranscriptFrame == "{\"type\":\"transcript\",\"text\":\"hi\"}"
NumberFrame == "42"
Frames == {TranscriptFrame, NumberFrame, "{\"type\":"}

\* JSON.parse(text): the value of a JSON text; any other text throws.
JSONParse(text) ==
    CASE text = TranscriptFrame -> [ok |-> TRUE, value |-> [type |-> "transcript", text |-> "hi"]]
      [] text = NumberFrame -> [ok |-> TRUE, value |-> [type |-> "number", text |-> "42"]]
      [] OTHER -> [ok |-> FALSE, value |-> [type |-> "SyntaxError", text |-> text]]

WsEvt(op, t) == [op |-> op, t |-> t]

NewTransport == [readyState |-> "CONNECTING", sent |-> {}]

Live(t) == transports[t].readyState \in {"CONNECTING", "OPEN"}

\* this.ws?.readyState === WebSocket.OPEN
isConnected == ws # 0 /\ transports[ws].readyState = "OPEN"

InitWS ==
    /\ transports = <<>>
    /\ ws = 0
    /\ reconnectTimer = 0
    /\ shouldReconnect = TRUE
    /\ timers = {}
    /\ wsStatus = "none"
    /\ afterDisconnect = FALSE
    /\ accepted = {}
    /\ frames = <<>>
    /\ transcripts = <<>>
    /\ wsEvt = WsEvt("init", 0)

\* The body of connect(): the change to the instance and its transports.
connect ==
    IF isConnected
    THEN UNCHANGED <<transports, ws, wsStatus>>
    ELSE /\ Len(transports) < MaxTransports
         /\ wsStatus' = "connecting"
         /\ transports' = Append(transports, NewTransport)
         /\ ws' = Len(transports) + 1

\* connect() called by the owner of the instance.
Connect ==
    /\ connect
    /\ afterDisconnect' = FALSE
    /\ wsEvt' = WsEvt(IF isConnected THEN "connect_noop" ELSE "connect", ws')
    /\ UNCHANGED <<reconnectTimer, shouldReconnect, timers, accepted, frames, transcripts>>

\* The reconnect timer's callback: () => this.connect().
TimerFire(k) ==
    /\ k \in timers
    /\ timers' = timers \ {k}
    /\ connect
    /\ wsEvt' = WsEvt(IF isConnected THEN "timer_noop" ELSE "timer_connect", ws')
    /\ UNCHANGED <<reconnectTimer, shouldReconnect, afterDisconnect, accepted, frames,
                   transcripts>>

\* Transport t's open event: onopen.
TransportOpen(t) ==
    /\ transports[t].readyState = "CONNECTING"
    /\ transports' = [transports EXCEPT ![t].readyState = "OPEN"]
    /\ wsStatus' = "open"
    /\ wsEvt' = WsEvt("open", t)
    /\ UNCHANGED <<ws, reconnectTimer, shouldReconnect, timers, afterDisconnect, accepted,
                   frames, transcripts>>

\* onclose of transport t: report "closed", then schedule the reconnect.
onclose(t) ==
    /\ wsStatus' = "closed"
    /\ IF shouldReconnect
       THEN /\ reconnectTimer' = t
            /\ timers' = timers \cup {<<t, ReconnectDelayMs>>}
       ELSE UNCHANGED <<reconnectTimer, timers>>

\* Transport t's close event (closed by the peer, or a close() completing).
TransportClose(t) ==
    /\ transports[t].readyState \in {"OPEN", "CLOSING"}
    /\ transports' = [transports EXCEPT ![t].readyState = "CLOSED"]
    /\ onclose(t)
    /\ wsEvt' = WsEvt("close", t)
    /\ UNCHANGED <<ws, shouldReconnect, afterDisconnect, accepted, frames, transcripts>>

\* Transport t fails: its error event (onerror) and then its close event.
TransportError(t) ==
    /\ transports[t].readyState \in {"CONNECTING", "OPEN", "CLOSING"}
    /\ transports' = [transports EXCEPT ![t].readyState = "CLOSED"]
    /\ onclose(t)
    /\ wsEvt' = WsEvt("error_close", t)
    /\ UNCHANGED <<ws, shouldReconnect, afterDisconnect, accepted, frames, transcripts>>

\* Mutant: the handler without its try/catch.
onmessage_noCatch(t, data) ==
    IF JSONParse(data).ok
    THEN /\ transcripts' = Append(transcripts, JSONParse(data).value)
         /\ wsEvt' = WsEvt("message", t)
    ELSE /\ wsEvt' = WsEvt("message_threw", t)
         /\ UNCHANGED transcripts

\* onmessage of transport t for a message event carrying data: parse, hand the
\* value to onTranscript; whatever is thrown on the way is caught and dropped.
onmessage(t, data) ==
    IF JSONParse(data).ok
    THEN /\ transcripts' = Append(transcripts, JSONParse(data).value)
         /\ wsEvt' = WsEvt("message", t)
    ELSE /\ wsEvt' = WsEvt("message_ignored", t)
         /\ UNCHANGED transcripts

\* Transport t's message event: a text frame from the peer.
TransportMessage(t, data) ==
    /\ transports[t].readyState \in {"OPEN", "CLOSING"}
    /\ Len(frames) < MaxFrames
    /\ frames' = Append(frames, data)
    /\ onmessage(t, data)
    /\ UNCHANGED <<transports, ws, reconnectTimer, shouldReconnect, timers, wsStatus,
                   afterDisconnect, accepted>>

\* Mutant: the guard tests for a transport, not for an open one.
send_unlessNull(p) ==
    /\ IF ws # 0
       THEN /\ transports' = [transports EXCEPT ![ws].sent = @ \cup {p}]
            /\ accepted' = IF isConnected THEN accepted \cup {<<ws, p>>} ELSE accepted
            /\ wsEvt' = WsEvt("send", ws)
       ELSE /\ wsEvt' = WsEvt("send_dropped", ws)
            /\ UNCHANGED <<transports, accepted>>
    /\ UNCHANGED <<ws, reconnectTimer, shouldReconnect, timers, wsStatus, afterDisconnect,
                   frames, transcripts>>

\* The shared body of sendAudioChunk and sendText.
send(p) ==
    /\ IF isConnected
       THEN /\ transports' = [transports EXCEPT ![ws].sent = @ \cup {p}]
            /\ accepted' = accepted \cup {<<ws, p>>}
            /\ wsEvt' = WsEvt("send", ws)
       ELSE /\ wsEvt' = WsEvt("send_dropped", ws)
            /\ UNCHANGED <<transports, accepted>>
    /\ UNCHANGED <<ws, reconnectTimer, shouldReconnect, timers, wsStatus, afterDisconnect,
                   frames, transcripts>>

SendAudioChunk(chunk) == send(chunk)

SendText(text) == send(text)

\* WebSocket.close(): a connecting or open transport starts closing.
close(t) ==
    [transports EXCEPT ![t].readyState =
         IF @ \in {"CONNECTING", "OPEN"} THEN "CLOSING" ELSE @]

\* The body of disconnect().
disconnect ==
    /\ shouldReconnect' = FALSE
    /\ timers' = {k \in timers : k[1] # reconnectTimer}
    /\ reconnectTimer' = 0
    /\ transports' = IF ws # 0 THEN close(ws) ELSE transports
    /\ ws' = 0

Disconnect ==
    /\ disconnect
    /\ afterDisconnect' = TRUE
    /\ wsEvt' = WsEvt("disconnect", ws)
    /\ UNCHANGED <<wsStatus, accepted, frames, transcripts>>

TransportIds == 1..Len(transports)

NextWS ==
    \/ Connect /\ UNCHANGED <<authVars, room, siteVars>>
    \/ Disconnect /\ UNCHANGED <<authVars, room, siteVars>>
    \/ \E k \in timers : TimerFire(k) /\ UNCHANGED <<authVars, room, siteVars>>
    \/ \E t \in TransportIds : TransportOpen(t) /\ UNCHANGED <<authVars, room, siteVars>>
    \/ \E t \in TransportIds : TransportClose(t) /\ UNCHANGED <<authVars, room, siteVars>>
    \/ \E t \in TransportIds : TransportError(t) /\ UNCHANGED <<authVars, room, siteVars>>
    \/ \E c \in Chunks : SendAudioChunk(c) /\ UNCHANGED <<authVars, room, siteVars>>
    \/ \E x \in Texts : SendText(x) /\ UNCHANGED <<authVars, room, siteVars>>

\* The instance driven by its owner and by its transports' events, message
\* events included; the payload sends, which no handler of a transport event
\* reads or writes, are left to NextWS.
NextWSFrames ==
    \/ Connect /\ UNCHANGED <<authVars, room, siteVars>>
    \/ Disconnect /\ UNCHANGED <<authVars, room, siteVars>>
    \/ \E k \in timers : TimerFire(k) /\ UNCHANGED <<authVars, room, siteVars>>
    \/ \E t \in TransportIds : TransportOpen(t) /\ UNCHANGED <<authVars, room, siteVars>>
    \/ \E t \in TransportIds : TransportClose(t) /\ UNCHANGED <<authVars, room, siteVars>>
    \/ \E t \in TransportIds : TransportError(t) /\ UNCHANGED <<authVars, room, siteVars>>
    \/ \E t \in TransportIds, f \in Frames : TransportMessage(t, f) /\ UNCHANGED <<authVars, room, siteVars>>

\* Fairness of the mount effect: React runs it after the first commit, and
\* the identity fetch it awaits settles.
RestoreSettles ==
    (RestoreGetMeOk \/ \E e \in Errors : RestoreGetMeFail(e)) /\ UNCHANGED <<wsVars, room, siteVars>>

\* ------------------------------------------------------- RoomPageContent

NoParticipant == "none"

\* ?participantId= of a link-join, and the id joinMeeting returns to a host.
LinkParticipant == "p-42"
HostParticipant == "p-host"

\* The id of the meeting getMeetingByCode returns.
MeetingId == "m-1"

NoSocket == <<>>

NoName == "none"

\* c.name of the company getMyCompany returns for identity u, and u's email.
CompanyName(u) == <<"name", u>>
Email(u) == <<"email", u>>

MustLogIn == "Please log in to start a meeting"

InitRoom ==
    room \in [page : {"premount"},          \* "premount", "mounted", "exited"
              pid : {NoParticipant, LinkParticipant},  \* searchParams participantId
              initialized : {FALSE},         \* initialized.current
              hasCleanup : {FALSE},          \* the init effect's last run returned a cleanup
              depsUser : {NoUser},           \* user of the init effect's last run
              initUser : {NoUser},           \* user captured by init()'s closure
              initRuns : {0},                \* init() invocations
              initPc : {"idle"},             \* the await init() is suspended at
              steps : {<<>>},                \* calls init() started and saw settle, in order
              last : {[step |-> "none", ok |-> TRUE]},  \* the call that settled last
              leavePc : {"idle"},            \* the await handleLeave() is suspended at
              meeting : {FALSE},
              participantIdToUse : {NoParticipant},
              participantId : {NoParticipant},
              participantIdRef : {NoParticipant},
              isHost : {FALSE},
              error : {"none"},
              status : {"loading"},
              mediaPermission : {"pending"},
              agoraClientRef : {FALSE},
              channel : {"none"},            \* "none", "joined", "left"
              localAudioTrackRef : {FALSE},
              micTrack : {"none"},           \* "none", "live", "closed"
              audioContextRef : {FALSE},
              audioContext : {"none"},       \* "none", "running", "closed"
              localMediaStreamRef : {FALSE},
              mediaStream : {"none"},        \* "none", "live", "stopped"
              mediaRecorderRef : {FALSE},
              recorder : {"none"},           \* "none", "recording", "inactive"
              wsRef : {FALSE},
              socket : {NoSocket},           \* <<meetingId, participantId>> of the RelayWebSocket
              threw : {FALSE},               \* a release step raised an error
              joinCalls : {0},               \* joinMeeting calls issued
              joinName : {NoName},           \* name passed to joinMeeting
              leaveCalls : {<<>>}]           \* ids passed to leaveMeeting, in order

\* A state setter: React drops updates of an unmounted component.
Set(r, f, v) == IF r.page = "exited" THEN r ELSE [r EXCEPT ![f] = v]

\* init() calls step and suspends at its await.
Start(r, step) == [r EXCEPT !.initPc = step, !.steps = Append(@, <<step, "start">>)]

\* The call init() awaited has settled.
Settle(r, step, ok) ==
    [r EXCEPT !.steps = Append(@, <<step, "settled">>), !.last = [step |-> step, ok |-> ok]]

\* Mutant: the effect body without the initialized guard.
InitEffect_noGuard(r) ==
    [r EXCEPT !.initialized = TRUE, !.hasCleanup = TRUE, !.depsUser = user,
              !.initUser = user, !.initRuns = @ + 1, !.initPc = "params"]

\* The body of the init effect: the initialized guard, the call of init() up
\* to `await params`, the returned cleanup.
InitEffect(r) ==
    IF r.initialized
    THEN [r EXCEPT !.depsUser = user, !.hasCleanup = FALSE]
    ELSE [r EXCEPT !.initialized = TRUE, !.hasCleanup = TRUE, !.depsUser = user,
                   !.initUser = user, !.initRuns = @ + 1, !.initPc = "params"]

\* The mount of the page: the init effect's first run.
RoomMount ==
    /\ room.page = "premount"
    /\ room' = InitEffect([room EXCEPT !.page = "mounted"])
    /\ UNCHANGED <<authVars, wsVars>>

\* `await params` resolved: read participantId, call getMeetingByCode.
InitParams ==
    /\ room.initPc = "params"
    /\ room' = Start(room, "getMeetingByCode")
    /\ UNCHANGED <<authVars, wsVars>>

\* getMeetingByCode settled; a rejection leaves init() (nothing catches it).
GetMeetingByCode(ok) ==
    /\ room.initPc = "getMeetingByCode"
    /\ room' = LET r == Settle(room, "getMeetingByCode", ok)
               IN IF ok
                  THEN Start(Set(r, "meeting", TRUE), "listParticipants")
                  ELSE [r EXCEPT !.initPc = "rejected"]
    /\ UNCHANGED <<authVars, wsVars>>

\* Mutant: the identity is tested before the supplied participantId.
ListParticipants_userFirst(ok) ==
    /\ room.initPc = "listParticipants"
    /\ room' =
         LET r == Settle(room, "listParticipants", ok)
         IN IF r.initUser # NoUser
            THEN Start(r, "getMyCompany")
            ELSE IF r.pid # NoParticipant
            THEN Start([Set(Set(r, "participantId", r.pid), "isHost", FALSE)
                           EXCEPT !.participantIdToUse = r.pid], "loadAgoraSDK")
            ELSE [Set(r, "error", MustLogIn) EXCEPT !.initPc = "returned"]
    /\ UNCHANGED <<authVars, wsVars>>

\* Mutant: the "must log in" branch without its return.
ListParticipants_noReturn(ok) ==
    /\ room.initPc = "listParticipants"
    /\ room' =
         LET r == Settle(room, "listParticipants", ok)
         IN IF r.pid # NoParticipant
            THEN Start([Set(Set(r, "participantId", r.pid), "isHost", FALSE)
                           EXCEPT !.participantIdToUse = r.pid], "loadAgoraSDK")
            ELSE IF r.initUser # NoUser
            THEN Start(r, "getMyCompany")
            ELSE Start(Set(r, "error", MustLogIn), "loadAgoraSDK")
    /\ UNCHANGED <<authVars, wsVars>>

\* listParticipants settled (its failure is caught); participant resolution.
ListParticipants(ok) ==
    /\ room.initPc = "listParticipants"
    /\ room' =
         LET r == Settle(room, "listParticipants", ok)
         IN IF r.pid # NoParticipant
            THEN Start([Set(Set(r, "participantId", r.pid), "isHost", FALSE)
                           EXCEPT !.participantIdToUse = r.pid], "loadAgoraSDK")
            ELSE IF r.initUser # NoUser
            THEN Start(r, "getMyCompany")
            ELSE [Set(r, "error", MustLogIn) EXCEPT !.initPc = "returned"]
    /\ UNCHANGED <<authVars, wsVars>>

\* getMyCompany settled (its failure is caught: the email is the name);
\* joinMeeting is called.
GetMyCompany(ok) ==
    /\ room.initPc = "getMyCompany"
    /\ room' = LET r == Settle(room, "getMyCompany", ok)
                   hostName == IF ok THEN CompanyName(r.initUser) ELSE Email(r.initUser)
               IN Start([r EXCEPT !.joinCalls = @ + 1, !.joinName = hostName], "joinMeeting")
    /\ UNCHANGED <<authVars, wsVars>>

\* joinMeeting settled; a rejection leaves init() (nothing catches it).
JoinMeeting(ok) ==
    /\ room.initPc = "joinMeeting"
    /\ room' = LET r == Settle(room, "joinMeeting", ok)
               IN IF ok
                  THEN Start([Set(Set(r, "participantId", HostParticipant), "isHost", TRUE)
                                 EXCEPT !.participantIdToUse = HostParticipant],
                             "loadAgoraSDK")
                  ELSE [r EXCEPT !.initPc = "rejected"]
    /\ UNCHANGED <<authVars, wsVars>>

\* The outer catch of init(): setError(err.message).
Caught(r) == [Set(r, "error", "Failed to join meeting") EXCEPT !.initPc = "returned"]

\* loadAgoraSDK settled; getAgoraToken is called.
LoadAgoraSDK(ok) ==
    /\ room.initPc = "loadAgoraSDK"
    /\ room' = LET r == Settle(room, "loadAgoraSDK", ok)
               IN IF ok
                  THEN Start(Set(r, "mediaPermission", "pending"), "getAgoraToken")
                  ELSE Caught(r)
    /\ UNCHANGED <<authVars, wsVars>>

\* getAgoraToken settled; the client is created and client.join is called.
GetAgoraToken(ok) ==
    /\ room.initPc = "getAgoraToken"
    /\ room' = LET r == Settle(room, "getAgoraToken", ok)
               IN IF ok
                  THEN Start([r EXCEPT !.agoraClientRef = TRUE], "join")
                  ELSE Caught(r)
    /\ UNCHANGED <<authVars, wsVars>>

\* Mutant: the socket is built with the participantId state.
ConnectSocket_stateId(r) ==
    /\ room' = [Set(r, "status", "connected")
                   EXCEPT !.wsRef = TRUE, !.initPc = "done",
                          !.socket = <<MeetingId, r.participantId>>,
                          !.steps = Append(@, <<"connect", "start">>)]
    /\ Connect
    /\ UNCHANGED authVars

\* The end of init(): new RelayWebSocket(m.id, participantIdToUse, ...),
\* ws.connect(), wsRef.current = ws, setStatus("connected").
ConnectSocket(r) ==
    /\ room' = [Set(r, "status", "connected")
                   EXCEPT !.wsRef = TRUE, !.initPc = "done",
                          !.socket = <<MeetingId, r.participantIdToUse>>,
                          !.steps = Append(@, <<"connect", "start">>)]
    /\ Connect
    /\ UNCHANGED authVars

\* Mutant: a failed client.join is treated like a failed microphone.
ClientJoin_continues(ok) ==
    /\ room.initPc = "join"
    /\ ok => room.channel = "none"
    /\ LET r == Settle(room, "join", ok)
       IN IF ok
          THEN /\ room' = Start([r EXCEPT !.channel = "joined"], "createMicrophoneAudioTrack")
               /\ UNCHANGED <<authVars, wsVars>>
          ELSE ConnectSocket(Set(r, "mediaPermission", "denied"))

\* client.join settled; createMicrophoneAudioTrack is called. A leave() made
\* while the join was pending aborts the join.
ClientJoin(ok) ==
    /\ room.initPc = "join"
    /\ ok => room.channel = "none"
    /\ room' = LET r == Settle(room, "join", ok)
               IN IF ok
                  THEN Start([r EXCEPT !.channel = "joined"], "createMicrophoneAudioTrack")
                  ELSE [Set(r, "error", "Failed to join meeting. Please try again.")
                           EXCEPT !.initPc = "returned"]
    /\ UNCHANGED <<authVars, wsVars>>

\* createMicrophoneAudioTrack settled: publish is called, or (denied) the rest
\* of init() runs without media.
CreateMicrophoneAudioTrack(ok) ==
    /\ room.initPc = "createMicrophoneAudioTrack"
    /\ LET r == Settle(room, "createMicrophoneAudioTrack", ok)
       IN IF ok
          THEN /\ room' = Start([r EXCEPT !.localAudioTrackRef = TRUE, !.micTrack = "live"],
                                "publish")
               /\ UNCHANGED <<authVars, wsVars>>
          ELSE ConnectSocket(Set(r, "mediaPermission", "denied"))

\* client.publish settled: the audio-level analyser is set up (or fails, caught)
\* and getUserMedia is called; a rejected publish is the denied path.
ClientPublish(ok, vizOk) ==
    /\ room.initPc = "publish"
    /\ LET r == Settle(room, "publish", ok)
       IN IF ok
          THEN /\ room' = Start([r EXCEPT !.audioContextRef = vizOk,
                                          !.audioContext = IF vizOk THEN "running" ELSE @],
                                "getUserMedia")
               /\ UNCHANGED <<authVars, wsVars>>
          ELSE ConnectSocket(Set(r, "mediaPermission", "denied"))

\* Mutant: a failed capture reaches the outer catch of init().
GetUserMedia_fatal(ok, recOk) ==
    /\ room.initPc = "getUserMedia"
    /\ LET r == Settle(room, "getUserMedia", ok)
           got == [r EXCEPT !.localMediaStreamRef = TRUE, !.mediaStream = "live",
                            !.mediaRecorderRef = recOk,
                            !.recorder = IF recOk THEN "recording" ELSE @]
       IN IF ok
          THEN ConnectSocket(Set(got, "mediaPermission", "granted"))
          ELSE room' = Caught(r) /\ UNCHANGED <<authVars, wsVars>>

\* getUserMedia settled: the stream is kept and a MediaRecorder started (its
\* constructor may throw, caught); then the rest of init() runs.
GetUserMedia(ok, recOk) ==
    /\ room.initPc = "getUserMedia"
    /\ LET r == Settle(room, "getUserMedia", ok)
           got == IF ok
                  THEN [r EXCEPT !.localMediaStreamRef = TRUE, !.mediaStream = "live",
                                 !.mediaRecorderRef = recOk,
                                 !.recorder = IF recOk THEN "recording" ELSE @]
                  ELSE r
       IN ConnectSocket(Set(got, "mediaPermission", "granted"))

\* MediaRecorder.stop(): an error on an inactive recorder, and without one.
stopRecorder(r) ==
    IF r.recorder = "recording"
    THEN [r EXCEPT !.recorder = "inactive"]
    ELSE [r EXCEPT !.threw = TRUE]

\* getTracks().forEach(track => track.stop()) of the captured stream.
stopStream(r) ==
    IF r.mediaStream # "none" THEN [r EXCEPT !.mediaStream = "stopped"] ELSE [r EXCEPT !.threw = TRUE]

\* AudioContext.close(): an error on a closed context, and without one.
closeContext(r) ==
    IF r.audioContext = "running"
    THEN [r EXCEPT !.audioContext = "closed"]
    ELSE [r EXCEPT !.threw = TRUE]

\* stop() and close() of the local microphone track.
closeTrack(r) ==
    IF r.micTrack # "none" THEN [r EXCEPT !.micTrack = "closed"] ELSE [r EXCEPT !.threw = TRUE]

\* Mutant: the recorder is stopped whatever its state.
Release_stopsInactive(r) ==
    LET a == IF r.mediaRecorderRef THEN stopRecorder(r) ELSE r
        b == IF a.localMediaStreamRef THEN stopStream(a) ELSE a
        c == IF b.audioContextRef THEN [closeContext(b) EXCEPT !.audioContextRef = FALSE] ELSE b
    IN IF c.agoraClientRef /\ c.localAudioTrackRef THEN closeTrack(c) ELSE c

\* The release steps shared, line for line, by the effect cleanup and by
\* handleLeave: recorder, captured stream, audio context, microphone track.
Release(r) ==
    LET a == IF r.mediaRecorderRef /\ r.recorder # "inactive" THEN stopRecorder(r) ELSE r
        b == IF a.localMediaStreamRef THEN stopStream(a) ELSE a
        c == IF b.audioContextRef THEN [closeContext(b) EXCEPT !.audioContextRef = FALSE] ELSE b
    IN IF c.agoraClientRef /\ c.localAudioTrackRef THEN closeTrack(c) ELSE c

\* client.leave() of the client in agoraClientRef.
ClientLeave(r) == IF r.agoraClientRef THEN [r EXCEPT !.channel = "left"] ELSE r

\* leaveMeeting(participantIdRef.current), when there is one.
LeaveMeeting(r) ==
    IF r.participantIdRef # NoParticipant
    THEN [r EXCEPT !.leaveCalls = Append(@, r.participantIdRef)]
    ELSE r

\* The cleanup the init effect returned: its effect on the page and on the
\* resources, and its effect on the socket client.
cleanup(r) == [LeaveMeeting(ClientLeave(Release(r))) EXCEPT !.hasCleanup = FALSE]

cleanupSocket == IF room.wsRef THEN Disconnect ELSE UNCHANGED wsVars

\* The effect that copies participantId into participantIdRef.
SyncParticipantIdRef ==
    /\ room.page = "mounted"
    /\ room.participantIdRef # room.participantId
    /\ room' = [room EXCEPT !.participantIdRef = room.participantId]
    /\ UNCHANGED <<authVars, wsVars>>

\* A dependency of the init effect changed (user, or a new searchParams): the
\* previous run's cleanup runs, then the effect body.
EffectRerun(searchParamsChanged) ==
    /\ room.page = "mounted"
    /\ searchParamsChanged \/ room.depsUser # user
    /\ room' = InitEffect(IF room.hasCleanup THEN cleanup(room) ELSE room)
    /\ IF room.hasCleanup THEN cleanupSocket ELSE UNCHANGED wsVars
    /\ UNCHANGED authVars

\* The page unmounts: the cleanup of the init effect's last run, if any.
Unmount ==
    /\ room.page = "mounted"
    /\ room' = [(IF room.hasCleanup THEN cleanup(room) ELSE room)
                   EXCEPT !.page = "exited"]
    /\ IF room.hasCleanup THEN cleanupSocket ELSE UNCHANGED wsVars
    /\ UNCHANGED authVars

\* router.push("/dashboard") or router.push("/join") at the end of handleLeave.
Navigate(r) == [r EXCEPT !.leavePc = "navigated"]

\* handleLeave after client.leave(): the leave notification, then the redirect.
AfterClientLeave(r) ==
    IF r.participantIdRef # NoParticipant
    THEN [LeaveMeeting(r) EXCEPT !.leavePc = "leaveMeeting"]
    ELSE Navigate(r)

\* The Leave button (rendered in the in-call view): handleLeave up to its
\* first await. One invocation per page instance is modelled.
HandleLeave ==
    /\ room.page = "mounted"
    /\ ~isLoading /\ room.error = "none" /\ room.mediaPermission # "denied"
    /\ room.leavePc = "idle"
    /\ room' = IF room.agoraClientRef
               THEN [ClientLeave(Release(room)) EXCEPT !.leavePc = "clientLeave"]
               ELSE AfterClientLeave(Release(room))
    /\ IF room.wsRef THEN Disconnect ELSE UNCHANGED wsVars
    /\ UNCHANGED authVars

\* handleLeave: `await agoraClientRef.current.leave().catch(() => {})` settled.
HandleLeaveClientLeft ==
    /\ room.leavePc = "clientLeave"
    /\ room' = AfterClientLeave(room)
    /\ UNCHANGED <<authVars, wsVars>>

\* handleLeave: leaveMeeting settled (a rejection is caught): the redirect.
HandleLeaveMeetingSettled(ok) ==
    /\ room.leavePc = "leaveMeeting"
    /\ room' = Navigate(room)
    /\ UNCHANGED <<authVars, wsVars>>

\* The page's onStatus callback: "open" and "closed" set the status.
onStatus(r) ==
    IF wsStatus' = "open" THEN Set(r, "status", "connected")
    ELSE IF wsStatus' = "closed" THEN Set(r, "status", "disconnected")
    ELSE r

RoomTransportOpen(t) == TransportOpen(t) /\ room' = onStatus(room) /\ UNCHANGED authVars

RoomTransportClose(t) == TransportClose(t) /\ room' = onStatus(room) /\ UNCHANGED authVars

RoomTransportError(t) == TransportError(t) /\ room' = onStatus(room) /\ UNCHANGED authVars

RoomTimerFire(k) == TimerFire(k) /\ room' = onStatus(room) /\ UNCHANGED authVars

NextRoom ==
    \/ RestoreEffect /\ UNCHANGED <<wsVars, room, siteVars>>
    \/ RestoreGetMeOk /\ UNCHANGED <<wsVars, room, siteVars>>
    \/ \E e \in Errors : RestoreGetMeFail(e) /\ UNCHANGED <<wsVars, room, siteVars>>
    \/ RoomMount /\ UNCHANGED siteVars
    \/ InitParams /\ UNCHANGED siteVars
    \/ \E ok \in BOOLEAN : GetMeetingByCode(ok) /\ UNCHANGED siteVars
    \/ \E ok \in BOOLEAN : ListParticipants(ok) /\ UNCHANGED siteVars
    \/ \E ok \in BOOLEAN : GetMyCompany(ok) /\ UNCHANGED siteVars
    \/ \E ok \in BOOLEAN : JoinMeeting(ok) /\ UNCHANGED siteVars
    \/ \E ok \in BOOLEAN : LoadAgoraSDK(ok) /\ UNCHANGED siteVars
    \/ \E ok \in BOOLEAN : GetAgoraToken(ok) /\ UNCHANGED siteVars
    \/ \E ok \in BOOLEAN : ClientJoin(ok) /\ UNCHANGED siteVars
    \/ \E ok \in BOOLEAN : CreateMicrophoneAudioTrack(ok) /\ UNCHANGED siteVars
    \/ \E ok, vizOk \in BOOLEAN : ClientPublish(ok, vizOk) /\ UNCHANGED siteVars
    \/ \E ok, recOk \in BOOLEAN : GetUserMedia(ok, recOk) /\ UNCHANGED siteVars
    \/ SyncParticipantIdRef /\ UNCHANGED siteVars
    \/ \E searchParamsChanged \in BOOLEAN : EffectRerun(searchParamsChanged) /\ UNCHANGED siteVars
    \/ Unmount /\ UNCHANGED siteVars
    \/ HandleLeave /\ UNCHANGED siteVars
    \/ HandleLeaveClientLeft /\ UNCHANGED siteVars
    \/ \E ok \in BOOLEAN : HandleLeaveMeetingSettled(ok) /\ UNCHANGED siteVars
    \/ \E t \in TransportIds : RoomTransportOpen(t) /\ UNCHANGED siteVars
    \/ \E t \in TransportIds : RoomTransportClose(t) /\ UNCHANGED siteVars
    \/ \E t \in TransportIds : RoomTransportError(t) /\ UNCHANGED siteVars
    \/ \E k \in timers : RoomTimerFire(k) /\ UNCHANGED siteVars

\* ------------------------------------------- route guard and page gating

\* Pathnames, as their segments: "/" is <<>>, "/dashboard/x" is <<"dashboard", "x">>.
RootPath == <<>>
DashboardPath == <<"dashboard">>
LoginPath == <<"login">>
SignupPath == <<"signup">>

\* The document before the first page has loaded.
NoPage == <<"about:blank">>

\* Pathnames a request may name.
Paths ==
    {RootPath, DashboardPath, <<"dashboard", "x">>, <<"dashboard-old">>, LoginPath,
     SignupPath, <<"login", "reset">>, <<"join">>}

\* A URL: its pathname and its redirect query parameter (<<>> when absent).
Url(pathname) == [path |-> pathname, redirect |-> <<>>]

\* pathname.startsWith("/" + p): the first segment is p or goes on after p.
startsWith(pathname, p) == Len(pathname) >= 1 /\ pathname[1] \in {p, p \o "-old"}

\* config.matcher: "/dashboard/:path*", "/login", "/signup".
matcher(pathname) ==
    \/ Len(pathname) >= 1 /\ pathname[1] = "dashboard"
    \/ pathname = LoginPath
    \/ pathname = SignupPath

\* request.cookies.get("relay_token")?.value; "" stands for undefined.
cookieToken == IF cookie = NoCookie THEN "" ELSE DecodeURIComponent(cookie)

NextResponse(kind, url) == [kind |-> kind, url |-> url]

\* Mutant: the protected prefix is guarded whatever the cookie.
middleware_ignoresToken(url, token) ==
    LET pathname == url.path
        isProtected == startsWith(pathname, "dashboard")
        isAuthPage == startsWith(pathname, "login") \/ startsWith(pathname, "signup")
    IN IF isProtected
       THEN NextResponse("redirect", [path |-> LoginPath, redirect |-> <<pathname>>])
       ELSE IF isAuthPage /\ token # ""
       THEN NextResponse("redirect", Url(DashboardPath))
       ELSE NextResponse("next", url)

\* middleware(request): the response for a request the matcher selected.
middleware(url, token) ==
    LET pathname == url.path
        isProtected == startsWith(pathname, "dashboard")
        isAuthPage == startsWith(pathname, "login") \/ startsWith(pathname, "signup")
    IN IF isProtected /\ token = ""
       THEN NextResponse("redirect", [path |-> LoginPath, redirect |-> <<pathname>>])
       ELSE IF isAuthPage /\ token # ""
       THEN NextResponse("redirect", Url(DashboardPath))
       ELSE NextResponse("next", url)

\* The page just mounted: its gating effect has not run, the dashboard's
\* isRedirecting is false and its loading is true.
FreshPage(loadPc) ==
    [deps |-> <<>>, isRedirecting |-> FALSE, loading |-> TRUE, loadPc |-> loadPc]

InitNav ==
    /\ location = NoPage
    /\ request \in {<<Url(p)>> : p \in Paths}
    /\ page = FreshPage("idle")
    /\ navEvt = [url |-> Url(NoPage), cookie |-> NoCookie,
                 response |-> NextResponse("none", Url(NoPage))]

\* No document is loaded and none is requested.
NoNav ==
    /\ location = NoPage
    /\ request = <<>>
    /\ page = FreshPage("idle")
    /\ navEvt = [url |-> Url(NoPage), cookie |-> NoCookie,
                 response |-> NextResponse("none", Url(NoPage))]

\* The pending request reaches the server: the guard answers it. A redirect is
\* followed by a new request; otherwise the page of the path is shown. A
\* navigation that ends on the path already shown keeps the page instance or
\* mounts a new one (remount); the router decides, not this repository.
Route(remount) ==
    /\ request # <<>>
    /\ LET url == request[1]
           response == IF matcher(url.path)
                       THEN middleware(url, cookieToken)
                       ELSE NextResponse("next", url)
       IN /\ navEvt' = [url |-> url, cookie |-> cookie, response |-> response]
          /\ IF response.kind = "redirect"
             THEN /\ ~remount
                  /\ request' = <<response.url>>
                  /\ UNCHANGED <<location, page>>
             ELSE /\ remount \/ location = url.path
                  /\ request' = <<>>
                  /\ location' = url.path
                  /\ page' = IF remount THEN FreshPage(page.loadPc) ELSE page
    /\ UNCHANGED <<authVars, wsVars, room>>

\* The effect of Home: router.replace to the dashboard or to the login page
\* once the AuthProvider has stopped loading.
HomeEffect ==
    /\ location = RootPath
    /\ page.deps # <<<<isAuthenticated, isLoading>>>>
    /\ page' = [page EXCEPT !.deps = <<<<isAuthenticated, isLoading>>>>]
    /\ request' = IF ~isLoading
                  THEN <<Url(IF isAuthenticated THEN DashboardPath ELSE LoginPath)>>
                  ELSE request
    /\ UNCHANGED <<location, navEvt, authVars, wsVars, room>>

\* The gating effect of DashboardPage, run after mount and when user,
\* authLoading or isRedirecting changed.
DashboardEffect ==
    /\ location = DashboardPath
    /\ page.deps # <<<<user, isLoading, page.isRedirecting>>>>
    /\ LET seen == [page EXCEPT !.deps = <<<<user, isLoading, page.isRedirecting>>>>]
       IN IF page.isRedirecting
          THEN page' = seen /\ UNCHANGED request
          ELSE IF ~isLoading /\ user = NoUser
          THEN page' = seen /\ request' = <<Url(LoginPath)>>
          ELSE IF user # NoUser
          THEN page' = [seen EXCEPT !.loadPc = "listMeetings"] /\ UNCHANGED request
          ELSE page' = seen /\ UNCHANGED request
    /\ UNCHANGED <<location, navEvt, authVars, wsVars, room>>

\* errorMessage.includes("401") || errorMessage.includes("Unauthorized")
Unauthorized(errorMessage) == errorMessage = "HTTP 401"

\* loadMeetings: listMeetings resolved.
ListMeetingsOk ==
    /\ page.loadPc = "listMeetings"
    /\ page' = [page EXCEPT !.loadPc = "idle", !.loading = FALSE]
    /\ UNCHANGED <<location, request, navEvt, authVars, wsVars, room>>

\* loadMeetings: listMeetings rejected; an unauthorized one logs out and
\* pushes the login page.
ListMeetingsFail(errorMessage) ==
    /\ page.loadPc = "listMeetings"
    /\ IF Unauthorized(errorMessage)
       THEN /\ page' = [page EXCEPT !.loadPc = "idle", !.isRedirecting = TRUE]
            /\ Logout
            /\ request' = <<Url(LoginPath)>>
       ELSE /\ page' = [page EXCEPT !.loadPc = "idle", !.loading = FALSE]
            /\ UNCHANGED <<request, authVars>>
    /\ UNCHANGED <<location, navEvt, wsVars, room>>

\* The AuthProvider mounts with the first document.
NextNav ==
    \/ \E remount \in BOOLEAN : Route(remount) /\ UNCHANGED <<listVars, apiVars, join>>
    \/ HomeEffect /\ UNCHANGED <<listVars, apiVars, join>>
    \/ DashboardEffect /\ UNCHANGED <<listVars, apiVars, join>>
    \/ ListMeetingsOk /\ UNCHANGED <<listVars, apiVars, join>>
    \/ \E m \in {"HTTP 401", "Not authenticated", "HTTP 500"} : ListMeetingsFail(m) /\ UNCHANGED <<listVars, apiVars, join>>
    \/ location # NoPage /\ RestoreEffect /\ UNCHANGED <<wsVars, room, siteVars>>
    \/ location # NoPage /\ RestoreGetMeOk /\ UNCHANGED <<wsVars, room, siteVars>>
    \/ \E e \in Errors : location # NoPage /\ RestoreGetMeFail(e) /\ UNCHANGED <<wsVars, room, siteVars>>

\* ------------------------------------------------ DashboardPage session list

\* Ids of sessions: two that exist when the list is loaded, one createMeeting
\* will return.
Sessions == {"s1", "s2", "s3"}

\* The list loadMeetings stored: the status of each session shown.
InitList ==
    /\ meetings = [id \in Sessions |-> IF id = "s3" THEN "absent" ELSE "active"]
    /\ backend = meetings
    /\ inflight = {}
    /\ listEvt = [op |-> "loaded", id |-> "none"]

\* A handler runs to its await and is suspended there with the request it
\* made and the `meetings` of the render whose handler was invoked.
Invoke(kind, id) ==
    /\ Cardinality(inflight) < MaxInflight
    /\ \A h \in inflight : h.id # id
    /\ inflight' = inflight \cup {[kind |-> kind, id |-> id, meetings |-> meetings]}
    /\ listEvt' = [op |-> kind, id |-> id]
    /\ UNCHANGED <<meetings, backend>>

\* handleCreateMeeting up to `await createMeeting(newMeeting)`.
HandleCreateMeeting(id) == backend[id] = "absent" /\ Invoke("create", id)

\* handleEndMeeting(meetingId) up to `await endMeeting(meetingId)`.
HandleEndMeeting(id) == meetings[id] = "active" /\ Invoke("end", id)

\* handleDeleteMeeting(meetingId), confirmed, up to `await deleteMeeting(meetingId)`.
HandleDeleteMeeting(id) == meetings[id] # "absent" /\ Invoke("delete", id)

\* The list a handler passes to setMeetings after its request resolved:
\* [meeting, ...meetings], meetings.map(...), meetings.filter(...), each over
\* the `meetings` the handler closed over.
Resolved(h) ==
    CASE h.kind = "create" -> [h.meetings EXCEPT ![h.id] = "active"]
      [] h.kind = "end" -> [h.meetings EXCEPT ![h.id] = IF @ = "absent" THEN @ ELSE "ended"]
      [] h.kind = "delete" -> [h.meetings EXCEPT ![h.id] = "absent"]

\* The backend after a request succeeded.
Served(h) ==
    [backend EXCEPT ![h.id] = CASE h.kind = "create" -> "active"
                                [] h.kind = "end" -> "ended"
                                [] h.kind = "delete" -> "deleted"]

\* The request of handler h resolves: setMeetings(...).
RequestOk(h) ==
    /\ h \in inflight
    /\ backend[h.id] \in (IF h.kind = "create" THEN {"absent"} ELSE {"active", "ended"})
    /\ backend' = Served(h)
    /\ meetings' = Resolved(h)
    /\ inflight' = inflight \ {h}
    /\ listEvt' = [op |-> h.kind \o "_ok", id |-> h.id]

\* The request of handler h rejects: the catch reports it, the list stays.
RequestFail(h) ==
    /\ h \in inflight
    /\ inflight' = inflight \ {h}
    /\ listEvt' = [op |-> h.kind \o "_failed", id |-> h.id]
    /\ UNCHANGED <<meetings, backend>>

NextList ==
    \/ \E id \in Sessions : HandleCreateMeeting(id) /\ UNCHANGED <<authVars, wsVars, room, navVars, apiVars, join>>
    \/ \E id \in Sessions : HandleEndMeeting(id) /\ UNCHANGED <<authVars, wsVars, room, navVars, apiVars, join>>
    \/ \E id \in Sessions : HandleDeleteMeeting(id) /\ UNCHANGED <<authVars, wsVars, room, navVars, apiVars, join>>
    \/ \E h \in inflight : RequestOk(h) /\ UNCHANGED <<authVars, wsVars, room, navVars, apiVars, join>>
    \/ \E h \in inflight : RequestFail(h) /\ UNCHANGED <<authVars, wsVars, room, navVars, apiVars, join>>

\* ----------------------------------------------------------- gateway client

\* No Authorization entry in the headers of a request.
NoHeader == "none"

\* The endpoint functions with the auth option each passes to apiFetch (TRUE
\* where the function passes none and the default applies).
Endpoints ==
    { [name |-> "loginCompany", auth |-> FALSE],
      [name |-> "registerCompany", auth |-> FALSE],
      [name |-> "getMe", auth |-> TRUE],
      [name |-> "getMyCompany", auth |-> TRUE],
      [name |-> "listMeetings", auth |-> TRUE],
      [name |-> "createMeeting", auth |-> TRUE],
      [name |-> "getMeeting", auth |-> TRUE],
      [name |-> "getMeetingByCode", auth |-> FALSE],
      [name |-> "endMeeting", auth |-> TRUE],
      [name |-> "deleteMeeting", auth |-> TRUE],
      [name |-> "getAgoraToken", auth |-> FALSE],
      [name |-> "joinMeeting", auth |-> FALSE],
      [name |-> "leaveMeeting", auth |-> FALSE],
      [name |-> "listParticipants", auth |-> FALSE],
      [name |-> "getMeetingAnalytics", auth |-> TRUE],
      [name |-> "getMeetingSummaries", auth |-> TRUE],
      [name |-> "getMeetingTranscripts", auth |-> TRUE] }

\* Response bodies: what response.json() makes of them ("text": it rejects),
\* the detail field of the parsed object (its type, and its text under
\* String()), and JSON.stringify of the object.
Bodies ==
    { [kind |-> "text", detail |-> [type |-> "undefined", text |-> "undefined"],
       json |-> ""],
      [kind |-> "null", detail |-> [type |-> "undefined", text |-> "undefined"],
       json |-> "null"],
      [kind |-> "object", detail |-> [type |-> "string", text |-> "Invalid credentials"],
       json |-> "{\"detail\":\"Invalid credentials\"}"],
      [kind |-> "object", detail |-> [type |-> "array", text |-> "[object Object]"],
       json |-> "{\"detail\":[{\"msg\":\"field required\"}]}"],
      [kind |-> "object", detail |-> [type |-> "undefined", text |-> "undefined"],
       json |-> "{\"message\":\"gone\"}"] }

\* headers["Authorization"] attached whatever the auth option says.
Headers_always(auth) ==
    IF getToken # NoToken THEN "Bearer " \o getToken ELSE NoHeader

\* if (auth) { const token = getToken(); if (token) headers["Authorization"] = ... }
Headers(auth) ==
    IF auth /\ getToken # NoToken THEN "Bearer " \o getToken ELSE NoHeader

\* The message without the JSON.stringify(err) fallback.
ErrorDetail_noFallback(status, body) ==
    IF body.kind = "object" THEN body.detail.text ELSE "HTTP " \o ToString(status)

\* let detail = `HTTP ${status}`; try { err = await response.json();
\* detail = err.detail ?? JSON.stringify(err) } catch {}: reading err.detail of
\* a null body throws inside the try.
ErrorDetail(status, body) ==
    IF body.kind = "object"
    THEN IF body.detail.type # "undefined" THEN body.detail.text ELSE body.json
    ELSE "HTTP " \o ToString(status)

\* What apiFetch does with the response of its one fetch().
Outcome(status, body) ==
    IF status \notin 200..299
    THEN [kind |-> "throw", message |-> ErrorDetail(status, body)]
    ELSE IF status = 204 THEN [kind |-> "undefined", message |-> ""]
    ELSE IF body.kind = "text"
    THEN [kind |-> "throw", message |-> "Unexpected end of JSON input"]
    ELSE [kind |-> "value", message |-> ""]

NoResult ==
    [endpoint |-> "none", auth |-> FALSE, stored |-> NoToken, pc |-> "none",
     status |-> 0, body |-> [kind |-> "text", detail |-> [type |-> "undefined", text |-> "undefined"],
              json |-> ""],
     outcome |-> [kind |-> "none", message |-> ""]]

InitApi ==
    /\ wire = <<>>
    /\ result = NoResult

\* apiFetch called by an endpoint function, up to `await fetch(...)`.
ApiFetch(endpoint) ==
    /\ result.pc # "fetch"
    /\ wire' = <<[endpoint |-> endpoint.name, authorization |-> Headers(endpoint.auth)]>>
    /\ result' = [NoResult EXCEPT !.endpoint = endpoint.name, !.auth = endpoint.auth,
                                  !.stored = localStorage, !.pc = "fetch"]
    /\ UNCHANGED authVars

\* fetch() resolved with a response: apiFetch throws or returns.
FetchResponse(status, body) ==
    /\ result.pc = "fetch"
    /\ result' = [result EXCEPT !.pc = "settled", !.status = status, !.body = body,
                                !.outcome = Outcome(status, body)]
    /\ UNCHANGED <<wire, authVars>>

\* fetch() rejected: the rejection propagates out of apiFetch.
FetchRejected ==
    /\ result.pc = "fetch"
    /\ result' = [result EXCEPT !.pc = "settled", !.outcome = [kind |-> "throw", message |-> "Failed to fetch"]]
    /\ UNCHANGED <<wire, authVars>>

\* setToken(token)
SetToken(token) ==
    /\ localStorage' = token
    /\ UNCHANGED <<cookie, user, isLoading, restorePc, restoreBearer, calls, authEvt>>
    /\ UNCHANGED apiVars

\* clearToken()
ClearToken ==
    /\ localStorage' = NoToken
    /\ UNCHANGED <<cookie, user, isLoading, restorePc, restoreBearer, calls, authEvt>>
    /\ UNCHANGED apiVars

NextApi ==
    \/ \E ep \in Endpoints : ApiFetch(ep) /\ UNCHANGED <<wsVars, room, navVars, listVars, join>>
    \/ \E st \in {200, 204, 401, 422, 500}, b \in Bodies :
          FetchResponse(st, b) /\ UNCHANGED <<wsVars, room, navVars, listVars, join>>
    \/ FetchRejected /\ UNCHANGED <<wsVars, room, navVars, listVars, join>>
    \/ \E t \in Tokens : SetToken(t) /\ UNCHANGED <<wsVars, room, navVars, listVars, join>>
    \/ ClearToken /\ UNCHANGED <<wsVars, room, navVars, listVars, join>>

\* ------------------------------------------------------------- the join page

NoMeeting == "none"
NoError == "none"

\* Codes a visitor may type or follow a link with; "" is no code parameter.
Codes == {"abc123", "ABC123", "XYZ789"}

\* String.prototype.toUpperCase on the codes above.
toUpperCase(c) == IF c = "abc123" THEN "ABC123" ELSE c

\* The session the backend knows under a code.
MeetingOf(code) == IF code = "ABC123" THEN "m1" ELSE "m2"

\* JoinPageContent on its first render, before its effects have run.
JoinPage(initialCode) ==
    [ initialCode |-> initialCode,
      step |-> IF initialCode # "" THEN "name" ELSE "code",
      code |-> toUpperCase(initialCode),
      meeting |-> NoMeeting,
      error |-> NoError,
      loading |-> FALSE,
      pc |-> "mount",           \* "mount", "idle", "urlLookup", "lookup", "join", "left"
      asked |-> "",             \* the code of the lookup in flight
      resolved |-> {},          \* sessions the lookups of this instance returned
      joins |-> <<>>,           \* meeting_id of every joinMeeting request issued
      evt |-> "init" ]          \* the handler that ran last

\* No join page is mounted.
NoJoin == join = [JoinPage("") EXCEPT !.pc = "left", !.evt = "none"]

\* useEffect(() => { if (!initialCode) return; setLoading(true);
\* getMeetingByCode(initialCode.toUpperCase())... }, [initialCode])
LookupEffect ==
    /\ join.pc = "mount"
    /\ join' = IF join.initialCode = ""
               THEN [join EXCEPT !.pc = "idle", !.evt = "effect"]
               ELSE [join EXCEPT !.loading = TRUE, !.pc = "urlLookup",
                                 !.asked = toUpperCase(join.initialCode),
                                 !.evt = "effect"]

\* .then((m) => { setMeeting(m); setStep("name") }).finally(...)
LookupEffectOk ==
    /\ join.pc = "urlLookup"
    /\ join' = [join EXCEPT !.meeting = MeetingOf(join.asked), !.step = "name",
                            !.resolved = @ \cup {MeetingOf(join.asked)},
                            !.loading = FALSE, !.pc = "idle", !.evt = "urlLookupOk"]

\* The catch of the effect without its setStep("code").
LookupEffectFail_keepsStep(message) ==
    /\ join.pc = "urlLookup"
    /\ join' = [join EXCEPT !.error = message,
                            !.loading = FALSE, !.pc = "idle", !.evt = "urlLookupFailed"]

\* .catch((err) => { setError(err.message); setStep("code") }).finally(...)
LookupEffectFail(message) ==
    /\ join.pc = "urlLookup"
    /\ join' = [join EXCEPT !.error = message, !.step = "code",
                            !.loading = FALSE, !.pc = "idle", !.evt = "urlLookupFailed"]

\* onChange of the code input: setCode(e.target.value.toUpperCase())
SetCode(typed) ==
    /\ join.pc \in {"idle", "lookup", "join"}
    /\ join.step = "code"
    /\ join.code # toUpperCase(typed)
    /\ join' = [join EXCEPT !.code = toUpperCase(typed), !.evt = "setCode"]

\* handleLookup up to its await; the form is shown on the code step and its
\* button is disabled while loading or while the code has fewer than 6 letters.
HandleLookup ==
    /\ join.pc = "idle"
    /\ join.step = "code"
    /\ ~join.loading
    /\ join.code # ""
    /\ join' = [join EXCEPT !.error = NoError, !.loading = TRUE, !.pc = "lookup",
                            !.asked = join.code, !.evt = "handleLookup"]

HandleLookupOk ==
    /\ join.pc = "lookup"
    /\ join' = [join EXCEPT !.meeting = MeetingOf(join.asked), !.step = "name",
                            !.resolved = @ \cup {MeetingOf(join.asked)},
                            !.loading = FALSE, !.pc = "idle", !.evt = "lookupOk"]

HandleLookupFail(message) ==
    /\ join.pc = "lookup"
    /\ join' = [join EXCEPT !.error = message,
                            !.loading = FALSE, !.pc = "idle", !.evt = "lookupFailed"]

\* The Back button of the name step: setStep("code"); setMeeting(null). It is
\* not disabled while a join request is in flight.
Back ==
    /\ join.pc \in {"idle", "join"}
    /\ join.step = "name"
    /\ join.meeting # NoMeeting
    /\ join' = [join EXCEPT !.step = "code", !.meeting = NoMeeting, !.evt = "back"]

\* handleJoin up to its await; the form is shown on the name step once a
\* meeting is set, and `if (!meeting) return` guards the handler itself.
HandleJoin ==
    /\ join.pc = "idle"
    /\ join.step = "name"
    /\ join.meeting # NoMeeting
    /\ ~join.loading
    /\ Len(join.joins) < MaxJoins
    /\ join' = [join EXCEPT !.error = NoError, !.loading = TRUE, !.pc = "join",
                            !.joins = Append(@, join.meeting),
                            !.evt = "handleJoin"]

\* router.push(`/room/${meeting.code}?participantId=${participant.id}`)
HandleJoinOk ==
    /\ join.pc = "join"
    /\ join' = [join EXCEPT !.loading = FALSE, !.pc = "left", !.evt = "joinOk"]

HandleJoinFail(message) ==
    /\ join.pc = "join"
    /\ join' = [join EXCEPT !.error = message, !.loading = FALSE, !.pc = "idle",
                            !.evt = "joinFailed"]

NextJoin ==
    \/ LookupEffect /\ UNCHANGED <<authVars, wsVars, room, navVars, listVars, apiVars>>
    \/ LookupEffectOk /\ UNCHANGED <<authVars, wsVars, room, navVars, listVars, apiVars>>
    \/ \E m \in Errors :
          LookupEffectFail(m) /\ UNCHANGED <<authVars, wsVars, room, navVars, listVars, apiVars>>
    \/ \E c \in Codes : SetCode(c) /\ UNCHANGED <<authVars, wsVars, room, navVars, listVars, apiVars>>
    \/ HandleLookup /\ UNCHANGED <<authVars, wsVars, room, navVars, listVars, apiVars>>
    \/ HandleLookupOk /\ UNCHANGED <<authVars, wsVars, room, navVars, listVars, apiVars>>
    \/ \E m \in Errors :
          HandleLookupFail(m) /\ UNCHANGED <<authVars, wsVars, room, navVars, listVars, apiVars>>
    \/ Back /\ UNCHANGED <<authVars, wsVars, room, navVars, listVars, apiVars>>
    \/ HandleJoin /\ UNCHANGED <<authVars, wsVars, room, navVars, listVars, apiVars>>
    \/ HandleJoinOk /\ UNCHANGED <<authVars, wsVars, room, navVars, listVars, apiVars>>
    \/ \E m \in Errors :
          HandleJoinFail(m) /\ UNCHANGED <<authVars, wsVars, room, navVars, listVars, apiVars>>

\* ----------------------------------------------------------- specifications

\* The auth context alone, starting from any persisted state a login leaves.
InitAuthSpec ==
    InitAuth /\ InitWS /\ InitRoom /\ room.pid = NoParticipant /\ NoNav /\ InitList /\ InitApi /\ NoJoin

SpecAuth == InitAuthSpec /\ [][NextAuth]_vars

\* One RelayWebSocket instance driven by its owner and by its transports.
InitWSSpec ==
    /\ InitAuth /\ localStorage = NoToken /\ InitWS /\ InitRoom /\ room.pid = NoParticipant
    /\ NoNav /\ InitList /\ InitApi /\ NoJoin

SpecWS == InitWSSpec /\ [][NextWS]_vars

\* The same instance receiving message events.
SpecWSFrames == InitWSSpec /\ [][NextWSFrames]_vars

\* One room page under the AuthProvider, with the socket client it creates.
InitRoomSpec == InitAuth /\ InitWS /\ InitRoom /\ NoNav /\ InitList /\ InitApi /\ NoJoin

SpecRoom == InitRoomSpec /\ [][NextRoom]_vars

\* A browser requesting a document of the site: the route guard, the pages'
\* gating effects and the AuthProvider. The cookie expires on its own and the
\* durable store is cleared on its own, so each may hold a Credential or none
\* whatever the other holds.
InitNavSpec ==
    /\ localStorage \in Tokens \cup {NoToken}
    /\ cookie \in {NoCookie} \cup {setCookie(t) : t \in Tokens}
    /\ user = NoUser
    /\ isLoading = TRUE
    /\ restorePc = "mount"
    /\ restoreBearer = NoToken
    /\ calls = [s \in Slots |-> IdleCall]
    /\ authEvt = Evt("init", 0, "none")
    /\ InitWS /\ InitRoom /\ room.pid = NoParticipant
    /\ InitNav /\ InitList /\ InitApi /\ NoJoin

SpecNav == InitNavSpec /\ [][NextNav]_vars

\* The same, with the server, the backend and React's effects not stalling.
SpecNavFair == InitNavSpec /\ [][NextNav]_vars /\ WF_vars(NextNav)

\* The session list of a loaded DashboardPage and its three handlers.
InitListSpec ==
    /\ InitAuth /\ localStorage = NoToken /\ InitWS /\ InitRoom /\ room.pid = NoParticipant
    /\ NoNav /\ InitList /\ InitApi /\ NoJoin

SpecList == InitListSpec /\ [][NextList]_vars

\* The gateway client called by its endpoint functions, the durable store
\* being written and cleared between the calls.
SpecApi == InitAuthSpec /\ [][NextApi]_vars

\* One join page, opened with or without a code in its URL.
InitJoinSpec ==
    /\ InitAuth /\ localStorage = NoToken /\ InitWS /\ InitRoom /\ room.pid = NoParticipant
    /\ NoNav /\ InitList /\ InitApi /\ join \in {JoinPage(c) : c \in Codes \cup {""}}

SpecJoin == InitJoinSpec /\ [][NextJoin]_vars

\* The auth context with the mount effect scheduled and its fetch settling.
SpecAuthFair ==
    /\ InitAuthSpec
    /\ [][NextAuth]_vars
    /\ WF_vars(RestoreEffect /\ UNCHANGED <<wsVars, room, siteVars>>)
    /\ WF_vars(RestoreSettles)

\* ------------------------------------------------------------------ claims

\* No login(), register() or restore is between its first and last step.
Quiescent == restorePc = "done" /\ \A s \in Slots : calls[s].pc = "idle"

\* init() ran to its end, returned early, or rejected.
InitFinished == room.initPc \in {"done", "returned", "rejected"}

\* C1: once the page has exited and init() has finished, no transport of
\* the socket client is connecting or open, no reconnect is pending, the audio
\* channel is not joined, and the microphone track and the captured stream are
\* released.
C1_ExitReleasesEverything ==
    (room.page = "exited" /\ InitFinished) =>
        /\ \A t \in TransportIds : ~Live(t)
        /\ timers = {}
        /\ room.channel # "joined"
        /\ room.micTrack # "live"
        /\ room.mediaStream # "live"

\* C2: after the mount effect's identity fetch fails, the Credential is gone
\* from the durable store and from the cookie, and no identity is published.
C2_RestoreFailureClearsBoth ==
    authEvt.op = "restore_failed"
        => localStorage = NoToken /\ cookie = NoCookie /\ ~isAuthenticated

\* C3: whenever no auth operation is mid-execution, the durable store holds a
\* Credential exactly when the cookie holds the same Credential.
C3_SurfacesConsistent ==
    Quiescent =>
        /\ (localStorage = NoToken) <=> (cookie = NoCookie)
        /\ localStorage # NoToken => DecodeURIComponent(cookie) = localStorage

\* C4: a logout() step leaves the durable store and the cookie without a
\* Credential and the identity null, and starts no backend request.
C4_LogoutClearsAll ==
    [][authEvt'.op = "logout" =>
          /\ localStorage' = NoToken
          /\ cookie' = NoCookie
          /\ ~isAuthenticated'
          /\ UNCHANGED <<calls, restorePc, restoreBearer>>]_vars

C4_Witness ==
    /\ authEvt.op = "logout"
    /\ localStorage = NoToken
    /\ \E s \in Slots : calls[s].pc = "getMe"

\* C5: a register() that started with nothing stored, created the account and
\* then rejects because its login failed leaves no Credential in either surface.
C5_RegisterFailedLoginLeavesNothing ==
    \A s \in Slots :
        (/\ authEvt.op \in {"register_rejected_exchange", "register_rejected_getMe"}
         /\ authEvt.slot = s
         /\ calls[s].startedEmpty
         /\ ~calls[s].interfered)
            => localStorage = NoToken /\ cookie = NoCookie

\* C6: login persists the exchanged Credential to both surfaces before it
\* fetches the identity, so the fetch carries that Credential; it ends with the
\* fetched identity published; a failed exchange rejects with the gateway's
\* error and changes neither surface nor the identity.
C6_LoginOrder ==
    /\ [](\A s \in Slots : calls[s].pc = "getMe" =>
              calls[s].tok \in Tokens /\ calls[s].bearer = calls[s].tok)
    /\ [][/\ (authEvt'.op = "login_persisted" =>
                 /\ localStorage' = calls'[authEvt'.slot].tok
                 /\ DecodeURIComponent(cookie') = localStorage'
                 /\ user' = user)
           /\ (authEvt'.op = "login_ok" =>
                 /\ user' = IdentityOf(calls[authEvt'.slot].tok)
                 /\ isAuthenticated')
           /\ (authEvt'.op = "login_rejected_exchange" =>
                 /\ authEvt'.err \in Errors
                 /\ UNCHANGED <<localStorage, cookie, user>>)]_vars

C6_Witness ==
    /\ authEvt.op = "login_ok"
    /\ isAuthenticated
    /\ user = IdentityOf(localStorage)

\* C7: the initial loading state ends in every branch of the mount effect,
\* and once ended it never comes back.
C7_LoadingEnds ==
    /\ <>(~isLoading)
    /\ [][~isLoading => ~isLoading']_vars

C7_Witness == authEvt.op = "restore_failed" /\ ~isLoading

\* C8: each transport close with reconnection enabled schedules exactly one
\* reconnect after the fixed delay, and after disconnect() no transport is
\* created by a timer (only by an explicit connect()).
C8_ReconnectOnceAndDisconnectStops ==
    [][/\ ((wsEvt'.op \in {"close", "error_close"} /\ shouldReconnect) =>
             /\ <<wsEvt'.t, ReconnectDelayMs>> \notin timers
             /\ timers' = timers \cup {<<wsEvt'.t, ReconnectDelayMs>>})
       /\ (wsEvt'.op = "timer_connect" => ~afterDisconnect)]_vars

\* C9: at most one transport of the instance is connecting or open, and
\* connect() on an open transport creates nothing and reports nothing.
C9_AtMostOneLiveTransport ==
    /\ [](Cardinality({t \in TransportIds : Live(t)}) <= 1)
    /\ [][wsEvt'.op = "connect_noop" => UNCHANGED <<transports, ws, wsStatus>>]_vars

\* C10: a send while the current transport is not open sends nothing and
\* changes nothing, and every frame a transport carried was passed to a send
\* call made while that transport was open.
C10_NoBuffering ==
    /\ [](\A t \in TransportIds : \A p \in transports[t].sent : <<t, p>> \in accepted)
    /\ [][wsEvt'.op = "send_dropped" =>
              UNCHANGED <<transports, ws, reconnectTimer, shouldReconnect, timers,
                          wsStatus, accepted>>]_vars

C10_Witness ==
    /\ wsEvt.op = "send_dropped"
    /\ Len(transports) > 1
    /\ ws # 0
    /\ transports[ws].readyState = "CONNECTING"
    /\ transports[1].sent # {}

\* The values of the frames of fs that are JSON, in order.
RECURSIVE Parsed(_)
Parsed(fs) ==
    IF fs = <<>> THEN <<>>
    ELSE LET rest == Parsed(SubSeq(fs, 1, Len(fs) - 1))
             last == JSONParse(fs[Len(fs)])
         IN IF last.ok THEN Append(rest, last.value) ELSE rest

\* C11: a message event whose text is not JSON hands nothing to the
\* transcript callback, throws nothing out of the handler and changes no field
\* of the client and no transport; the values handed to the callback are the
\* values of the JSON frames received, each once and in order.
C11_MalformedFramesIgnored ==
    /\ [](transcripts = Parsed(frames))
    /\ [](wsEvt.op # "message_threw")
    /\ [][wsEvt'.op = "message_ignored" =>
              UNCHANGED <<transports, ws, reconnectTimer, shouldReconnect, timers,
                          wsStatus, transcripts>>]_vars

C11_Witness ==
    /\ wsEvt.op = "message_ignored"
    /\ Len(frames) = 2
    /\ JSONParse(frames[1]).ok
    /\ transcripts = <<JSONParse(frames[1]).value>>

\* C12: right after a disconnect() reconnection is disabled, no reconnect
\* timer is pending and the client holds no timer handle and no transport; a
\* disconnect() that directly follows a disconnect() closes nothing and changes
\* nothing.
C12_DisconnectIdempotent ==
    /\ [](wsEvt.op = "disconnect" =>
              ~shouldReconnect /\ reconnectTimer = 0 /\ timers = {} /\ ws = 0)
    /\ [][(wsEvt.op = "disconnect" /\ wsEvt'.op = "disconnect") =>
              UNCHANGED <<transports, ws, reconnectTimer, shouldReconnect, timers,
                          wsStatus, afterDisconnect, accepted>>]_vars

\* Number of times init() started the call named step.
Started(step) ==
    Cardinality({i \in DOMAIN room.steps : room.steps[i] = <<step, "start">>})

StepNames ==
    {"getMeetingByCode", "listParticipants", "getMyCompany", "joinMeeting", "loadAgoraSDK",
     "getAgoraToken", "join", "createMicrophoneAudioTrack", "publish", "getUserMedia",
     "connect"}

\* The call named step settled last, and it failed.
Failed(step) == room.last = [step |-> step, ok |-> FALSE]

\* C13: however often the init effect runs again, init() is started at most
\* once, and each of its calls (session lookup, participant create, token
\* request, channel join, socket connect, ...) is made at most once.
C13_InitRunsOnce ==
    /\ room.initRuns <= 1
    /\ \A step \in StepNames : Started(step) <= 1
    /\ room.joinCalls <= 1

C13_Witness ==
    /\ room.page = "mounted"
    /\ room.initRuns = 1
    /\ room.initUser = NoUser
    /\ room.depsUser # NoUser
    /\ Started("connect") = 1

\* C14: with no participantId supplied and an authenticated identity (there
\* at mount, or published by the restore after mount), an init() that got past
\* the session lookup and has finished issued exactly one joinMeeting call, and
\* the name it passed is the identity's company name.
C14_HostPathCreatesOneParticipant ==
    (/\ room.pid = NoParticipant
     /\ isAuthenticated
     /\ InitFinished
     /\ Started("listParticipants") = 1)
        => Started("joinMeeting") = 1 /\ room.joinName = CompanyName(user)

\* C15: after a failed session lookup or a failed joinMeeting, init() has
\* stopped without a token request, a channel join or a socket, and the page
\* (if still mounted) has its error state set.
C15_LookupOrCreateFailureIsTerminal ==
    ((Failed("getMeetingByCode") \/ Failed("joinMeeting")) /\ room.page = "mounted") =>
        /\ InitFinished
        /\ Started("getAgoraToken") = 0 /\ Started("join") = 0
        /\ ~room.wsRef /\ Len(transports) = 0
        /\ room.error # "none"

\* C16 as stated: after a failed token request, channel join, microphone
\* track or publish, init() has built and connected the socket for the meeting
\* and the resolved participant, and the error state is not set.
C16_Step4FailuresDegrade ==
    (\/ Failed("getAgoraToken") \/ Failed("join")
     \/ Failed("createMicrophoneAudioTrack") \/ Failed("publish")) =>
        /\ room.initPc = "done"
        /\ room.wsRef /\ Len(transports) > 0
        /\ room.socket = <<MeetingId, room.participantIdToUse>>
        /\ room.error = "none"

\* C16, amended: a failed microphone track or publish degrades (the socket is
\* built and connected for the meeting and the resolved participant, no error
\* state); a failed token request or channel join ends init() with the error
\* state set and no socket.
C16_MediaFailureDegrades ==
    /\ (Failed("createMicrophoneAudioTrack") \/ Failed("publish")) =>
          /\ room.initPc = "done"
          /\ room.wsRef /\ Len(transports) > 0
          /\ room.socket = <<MeetingId, room.participantIdToUse>>
          /\ room.error = "none"
    /\ (Failed("getAgoraToken") \/ Failed("join")) =>
          /\ room.initPc = "returned"
          /\ ~room.wsRef /\ Len(transports) = 0 /\ room.socket = NoSocket
          /\ room.page = "mounted" => room.error # "none"

C16_Witness ==
    /\ Failed("createMicrophoneAudioTrack")
    /\ room.mediaPermission = "denied"
    /\ room.socket = <<MeetingId, HostParticipant>>
    /\ \E t \in TransportIds : transports[t].readyState = "OPEN"

\* The place of each call in init().
Rank(step) ==
    CASE step = "getMeetingByCode" -> 1
      [] step = "listParticipants" -> 2
      [] step = "getMyCompany" -> 3
      [] step = "joinMeeting" -> 4
      [] step = "loadAgoraSDK" -> 5
      [] step = "getAgoraToken" -> 6
      [] step = "join" -> 7
      [] step = "createMicrophoneAudioTrack" -> 8
      [] step = "publish" -> 9
      [] step = "getUserMedia" -> 10
      [] step = "connect" -> 11

\* C17: init() starts its calls in the order lookup, roster, participant
\* resolution, token, channel join, socket connect, each after the one before
\* it settled; a transport exists only once the socket was built, and the
\* socket is built for the meeting and the resolved participant id.
C17_StrictOrder ==
    /\ \A i \in DOMAIN room.steps :
          /\ (room.steps[i][2] = "settled") =>
                (i > 1 /\ room.steps[i - 1] = <<room.steps[i][1], "start">>)
          /\ (room.steps[i][2] = "start" /\ i > 1) =>
                /\ room.steps[i - 1][2] = "settled"
                /\ Rank(room.steps[i - 1][1]) < Rank(room.steps[i][1])
          /\ (room.steps[i][2] = "start" /\ i = 1) => room.steps[i][1] = "getMeetingByCode"
    /\ Len(transports) > 0 => room.socket # NoSocket
    /\ room.socket # NoSocket =>
          /\ room.participantIdToUse # NoParticipant
          /\ room.socket = <<MeetingId, room.participantIdToUse>>
          /\ Started("connect") = 1

C17_Witness ==
    /\ room.page = "exited"
    /\ room.participantId = NoParticipant
    /\ room.socket = <<MeetingId, HostParticipant>>
    /\ Started("getUserMedia") = 1
    /\ Len(transports) > 1

\* C18: with a participantId supplied, init() makes no getMyCompany and no
\* joinMeeting call whatever the identity, the id it resolves and builds the
\* socket with is the supplied one, and every leave notification carries it.
C18_LinkJoinAdoptsSuppliedId ==
    room.pid # NoParticipant =>
        /\ Started("getMyCompany") = 0 /\ Started("joinMeeting") = 0 /\ room.joinCalls = 0
        /\ room.participantIdToUse \in {NoParticipant, room.pid}
        /\ Started("loadAgoraSDK") = 1 => room.participantIdToUse = room.pid
        /\ room.socket # NoSocket => room.socket = <<MeetingId, room.pid>>
        /\ \A i \in DOMAIN room.leaveCalls : room.leaveCalls[i] = room.pid

C18_Witness ==
    /\ room.pid = LinkParticipant
    /\ room.initUser # NoUser
    /\ room.socket = <<MeetingId, LinkParticipant>>
    /\ room.leaveCalls = <<LinkParticipant>>

\* C19: participant resolution with no participantId and no identity ends
\* init() with the "must log in" error set; after that init() makes no further
\* call, and an error state, once set, is never cleared or replaced.
C19_NoIdentityIsTerminal ==
    [][/\ ((/\ room.initPc = "listParticipants" /\ room'.initPc # "listParticipants"
            /\ room.pid = NoParticipant /\ user = NoUser) =>
              /\ room'.initPc = "returned"
              /\ room.page = "mounted" => room'.error = MustLogIn)
       /\ (room.initPc = "returned" =>
              /\ room'.initPc = "returned"
              /\ room'.steps = room.steps /\ room'.joinCalls = room.joinCalls
              /\ room'.wsRef = room.wsRef /\ transports' = transports)
       /\ (room.error # "none" => room'.error = room.error)]_vars

C19_Witness ==
    /\ room.error = MustLogIn
    /\ room.initPc = "returned"
    /\ isAuthenticated
    /\ room.depsUser = user
    /\ Started("joinMeeting") = 0 /\ Started("getAgoraToken") = 0 /\ ~room.wsRef

\* The release steps and client.leave() of one teardown.
Teardown(r) == ClientLeave(Release(r))

\* C20: no release step of a teardown that ran raised an error, and from
\* every reachable state (whatever was acquired) a teardown, and a second one
\* right after it, raise no error, touch nothing that is absent, and the second
\* changes nothing.
C20_TeardownSafe ==
    /\ ~room.threw
    /\ ~Teardown(room).threw
    /\ Teardown(Teardown(room)) = Teardown(room)
    /\ room.recorder = "none" => Teardown(room).recorder = "none"
    /\ room.mediaStream = "none" => Teardown(room).mediaStream = "none"
    /\ room.audioContext = "none" => Teardown(room).audioContext = "none"
    /\ room.micTrack = "none" => Teardown(room).micTrack = "none"
    /\ ~room.agoraClientRef => Teardown(room).channel = room.channel
    /\ room.participantIdRef = NoParticipant => LeaveMeeting(room) = room
    /\ ~room.wsRef => Len(transports) = 0

C20_Witness ==
    /\ room.page = "exited"
    /\ room.leavePc # "idle"
    /\ Len(room.leaveCalls) = 2
    /\ room.recorder = "inactive"
    /\ room.audioContext = "none"
    /\ room.channel = "left"

\* C21: when the page exits, or handleLeave reaches its redirect, with a
\* participant id established by init(), a leaveMeeting call for that id (and
\* for no other) has been issued; with none established, none has been issued;
\* a settled leaveMeeting, failed or not, is followed by the redirect, and no
\* release step raised an error.
C21_LeaveNotification ==
    /\ [][((\/ room.page = "mounted" /\ room'.page = "exited"
            \/ room.leavePc # "navigated" /\ room'.leavePc = "navigated") =>
              IF room.participantIdToUse # NoParticipant
              THEN /\ Len(room'.leaveCalls) > 0
                   /\ \A i \in DOMAIN room'.leaveCalls :
                          room'.leaveCalls[i] = room.participantIdToUse
              ELSE room'.leaveCalls = <<>>)]_vars
    /\ [][room.leavePc = "leaveMeeting" => room'.leavePc \in {"leaveMeeting", "navigated"}]_vars
    /\ [](~room.threw)

\* C22: a failed roster fetch sets no error and leaves participant resolution
\* to run as after a successful one; a failed raw capture, or a recorder that
\* could not be built, sets no error and is followed by the socket being built
\* and connected.
C22_OptionalStepsNotFatal ==
    /\ Failed("listParticipants") =>
          /\ room.pid # NoParticipant =>
                /\ room.initPc = "loadAgoraSDK"
                /\ room.participantIdToUse = room.pid
                /\ room.error = "none"
          /\ (room.pid = NoParticipant /\ room.initUser # NoUser) =>
                room.initPc = "getMyCompany" /\ room.error = "none"
          /\ (room.pid = NoParticipant /\ room.initUser = NoUser) =>
                room.initPc = "returned" /\ room.error \in {"none", MustLogIn}
    /\ (room.last.step = "getUserMedia" /\ (~room.last.ok \/ ~room.mediaRecorderRef)) =>
          /\ room.initPc = "done"
          /\ room.wsRef /\ Len(transports) > 0
          /\ room.socket = <<MeetingId, room.participantIdToUse>>
          /\ room.error = "none"

C22_Witness ==
    /\ Failed("getUserMedia")
    /\ ~room.localMediaStreamRef
    /\ room.page = "mounted"
    /\ room.mediaPermission = "granted"
    /\ \E t \in TransportIds : transports[t].readyState = "OPEN"

\* C23: the guard's answer to a request depends on the pathname and on
\* whether the relay_token cookie is there: under /dashboard without the
\* cookie it redirects to /login with the pathname as redirect parameter; at
\* /login or /signup with the cookie it redirects to /dashboard; every other
\* request passes unchanged.
C23_RouteGating ==
    navEvt.response.kind # "none" =>
        LET pathname == navEvt.url.path
            hasCookie == navEvt.cookie # NoCookie
            protected == Len(pathname) >= 1 /\ pathname[1] = "dashboard"
            authPage == pathname \in {LoginPath, SignupPath}
        IN /\ (protected /\ ~hasCookie) =>
                 navEvt.response =
                     NextResponse("redirect", [path |-> LoginPath, redirect |-> <<pathname>>])
           /\ (authPage /\ hasCookie) =>
                 navEvt.response = NextResponse("redirect", Url(DashboardPath))
           /\ (~(protected /\ ~hasCookie) /\ ~(authPage /\ hasCookie)) =>
                 navEvt.response = NextResponse("next", navEvt.url)

C23_Witness ==
    /\ navEvt.url.path = <<"dashboard", "x">>
    /\ navEvt.cookie = NoCookie
    /\ localStorage # NoToken
    /\ request = <<[path |-> LoginPath, redirect |-> <<<<"dashboard", "x">>>>]>>

C24_CredentialAttachment ==
    result.endpoint # "none" =>
        /\ Len(wire) = 1
        /\ wire[1].authorization # NoHeader <=> (result.auth /\ result.stored # NoToken)
        /\ wire[1].authorization # NoHeader => wire[1].authorization = "Bearer " \o result.stored
        /\ result.endpoint \in {"getMeetingByCode", "joinMeeting", "leaveMeeting",
                                "listParticipants"}
              => wire[1].authorization = NoHeader

C24_Witness ==
    /\ result.endpoint = "leaveMeeting"
    /\ result.stored = "tok1"
    /\ wire[1].authorization = NoHeader

\* C25 as stated: every non-success status makes the call throw after one
\* fetch, with the body's detail field as message when the body parses and
\* "HTTP {status}" when it does not; a 204 returns nothing.
C25_ErrorNormalization ==
    result.endpoint # "none" =>
        /\ Len(wire) = 1
        /\ (result.status # 0 /\ result.status \notin 200..299) =>
              /\ result.outcome.kind = "throw"
              /\ result.outcome.message =
                    IF result.body.kind # "text" /\ result.body.detail.type # "undefined"
                    THEN result.body.detail.text
                    ELSE IF result.body.kind # "text" THEN ""
                    ELSE "HTTP " \o ToString(result.status)
        /\ result.status = 204 => result.outcome = [kind |-> "undefined", message |-> ""]

\* C25, amended: every non-success status makes the call throw after one
\* fetch; the message is the text of the body's detail field when the body
\* parses to an object that has one, the JSON text of the body when it parses
\* to an object without a detail field, and "HTTP {status}" when the body
\* does not parse or parses to null; a 204 returns nothing.
C25_ErrorNormalizationAmended ==
    result.endpoint # "none" =>
        /\ Len(wire) = 1
        /\ (result.status # 0 /\ result.status \notin 200..299) =>
              /\ result.outcome.kind = "throw"
              /\ result.outcome.message =
                    IF result.body.kind = "object" /\ result.body.detail.type # "undefined"
                    THEN result.body.detail.text
                    ELSE IF result.body.kind = "object" THEN result.body.json
                    ELSE "HTTP " \o ToString(result.status)
        /\ result.status = 204 => result.outcome = [kind |-> "undefined", message |-> ""]

C25_Witness ==
    /\ result.status = 500
    /\ result.body.kind = "object"
    /\ result.body.detail.type = "undefined"
    /\ result.outcome = [kind |-> "throw", message |-> "{\"message\":\"gone\"}"]

\* C26: when a lookup by code fails, from the URL's code or from the form,
\* the join page is on the code step with the error set once the failure is
\* handled; and every joinMeeting request names a session that a lookup of
\* this page returned.
C26_LookupFailureStaysOnCodeStep ==
    /\ join.evt \in {"urlLookupFailed", "lookupFailed"} =>
          /\ join.step = "code"
          /\ join.error # NoError
          /\ join.pc = "idle"
    /\ \A i \in 1..Len(join.joins) : join.joins[i] \in join.resolved
    /\ join.resolved = {} => join.joins = <<>>

C26_Witness ==
    /\ join.evt = "urlLookupFailed"
    /\ join.initialCode = "abc123"
    /\ join.step = "code"
    /\ join.error = "HTTP 500"
    /\ join.joins = <<>>

\* C28: whenever the AuthProvider publishes an identity (isAuthenticated),
\* the durable store holds a Credential, however the identity fetches of
\* the mount effect and of login() interleave with logout() and login().
C28_IdentityImpliesCredential ==
    isAuthenticated => localStorage # NoToken

\* C29: one room page instance issues at most one leaveMeeting request: an
\* explicit Leave followed by the teardown its navigation triggers, or
\* repeated effect cleanups, do not notify the backend a second time.
C29_AtMostOneLeaveCall ==
    Len(room.leaveCalls) <= 1

\* C30: the dashboard's list loses no update: a session whose delete request
\* succeeded is not in the list and never comes back, and once no request is
\* in flight every session whose end request succeeded is shown as ended,
\* whatever the order in which concurrent requests completed.
C30_NoLostUpdates ==
    /\ \A id \in Sessions : backend[id] = "deleted" => meetings[id] = "absent"
    /\ inflight = {} =>
          \A id \in Sessions : backend[id] = "ended" => meetings[id] = "ended"

====
